---- MODULE Spec2Model ----
(***************************************************************************)
(* Model of the text-preparation core of zc-forum-etl: the HTML text       *)
(* extractor, the whitespace normaliser, the character-budgeted chunker    *)
(* (library and ETL-binary copies), the prompt fingerprint and the         *)
(* incremental guard.                                                      *)
(*                                                                         *)
(* A Rust string is a sequence of characters (Unicode scalar values); a    *)
(* character is written as a TLA+ string: "a", " ", "\n", or "U+00E9" for  *)
(* a character outside ASCII.  Utf8Len gives the number of bytes of its    *)
(* UTF-8 encoding, so that str::len (bytes) and chars().count() differ.    *)
(***************************************************************************)
EXTENDS Integers, Sequences, FiniteSets, TLC

VARIABLES
    pc,                   \* the call that produced ret ("start" before any call)
    lines,                \* make_chunk: the ordered lines
    max_chars,            \* make_chunk / take_prefix_chars: the budget
    s,                    \* take_prefix_chars / squeeze_ws / strip_tags_fast: the input string
    dom,                  \* strip_tags_fast: children of the parsed document node
    ret,                  \* the value returned by the call named by pc
    posts,                \* table posts: id -> row, or NoRow
    topic_summaries_llm,  \* table topic_summaries_llm: topic_id -> row, or NoRow
    calls,                \* prompt_hash: the calls made so far, most recent first
    client,               \* summarize_with_ollama: the call in progress
    etl                   \* the ETL loop of main: its position and what it did

vars == <<pc, lines, max_chars, s, dom, ret, posts, topic_summaries_llm, calls, client, etl>>

\* A table maps a key to NoRow or to RowOf(row); an Option (and a nullable
\* column) is None or Some(v).
NoRow == <<>>
RowOf(row) == <<row>>
TheRow(cell) == cell[1]
None == <<>>
Some(v) == <<v>>
Unwrap(opt) == opt[1]
NULL == None

\* The state of a summarization call (see the clients below) before it is made.
NoResult == [ok |-> FALSE, raw |-> <<>>, in_tok |-> 0, out_tok |-> 0]
ClientIdle ==
    [pc |-> "idle", variant |-> "none", prompt |-> <<>>, in_tok |-> 0,
     max_elapsed |-> 0, elapsed |-> 0, current_interval |-> 0, requests |-> 0,
     last |-> "none", body |-> <<>>, only_transient |-> TRUE,
     prior_only_transient |-> TRUE, gave_up |-> None, result |-> NoResult]

\* The state of the ETL loop before a run.
EtlIdle ==
    [pc |-> "idle", topics |-> <<>>, todo |-> <<>>, visited |-> <<>>,
     topic |-> 0, prompt_hash |-> None, stored_hash |-> None, in_tok |-> 0,
     outcome |-> "none",
     warned |-> {}, now |-> 0]

(***************************************************************************)
(* Bounds of the model.                                                    *)
(***************************************************************************)
MaxLineLen == 2     \* characters per line of a make_chunk input
MaxLines == 3       \* lines per make_chunk input
MaxBudget == 7      \* largest max_chars tried

Min(a, b) == IF a <= b THEN a ELSE b

\* All sequences over S of length at most n.
SeqsUpTo(S, n) == UNION {[1..k -> S] : k \in 0..n}

(***************************************************************************)
(* Characters and strings.                                                 *)
(***************************************************************************)
\* Bytes of the UTF-8 encoding of a character (str::len sums these).
Utf8Len(ch) ==
    CASE ch = "U+00E9" -> 2     \* e with acute accent
      [] ch = "U+00A0" -> 2     \* no-break space
      [] ch = "U+FEFF" -> 3     \* byte order mark
      [] ch = "U+1F431" -> 4    \* cat face
      [] OTHER -> 1

\* str::len: the length of a string in bytes.
RECURSIVE str_len(_)
str_len(str) ==
    IF str = <<>> THEN 0
    ELSE IF Len(str) = 1 THEN Utf8Len(str[1])
    ELSE LET half == Len(str) \div 2
         IN  str_len(SubSeq(str, 1, half)) + str_len(SubSeq(str, half + 1, Len(str)))

\* str::chars().count(): the length of a string in characters.
chars_count(str) == Len(str)

\* char::is_whitespace (Unicode White_Space), on the characters of the model.
is_whitespace(ch) == ch \in {" ", "\t", "\n", "\r", "U+00A0"}

(***************************************************************************)
(* lib.rs: take_prefix_chars and make_chunk (budget in characters).        *)
(***************************************************************************)
\* Mutant: takes one character too many.
take_prefix_chars_off_by_one(str, max) ==
    IF chars_count(str) <= max THEN str ELSE SubSeq(str, 1, max + 1)

take_prefix_chars(str, max) ==
    LET total == chars_count(str)
    IN  IF total <= max THEN str ELSE SubSeq(str, 1, max)

\* usize::saturating_sub
saturating_sub(a, b) == IF a >= b THEN a - b ELSE 0

\* The for loop of make_chunk: ls is what is left of lines.
RECURSIVE make_chunk_loop(_, _, _, _)
make_chunk_loop(ls, max, cur, cur_chars) ==
    IF ls = <<>> THEN cur
    ELSE LET l == Head(ls)
             l_chars == chars_count(l)
         IN  IF cur_chars + l_chars + 1 > max
             THEN LET remain == saturating_sub(max, cur_chars)
                  IN  IF remain > 0
                      THEN cur \o take_prefix_chars(l, remain)
                      ELSE cur
             ELSE IF l # <<>>
                  THEN make_chunk_loop(Tail(ls), max, cur \o l \o <<"\n">>,
                                       cur_chars + l_chars + 1)
                  ELSE make_chunk_loop(Tail(ls), max, cur, cur_chars)

\* Mutant: the newline pushed after a line is not counted.
RECURSIVE make_chunk_loop_no_newline_count(_, _, _, _)
make_chunk_loop_no_newline_count(ls, max, cur, cur_chars) ==
    IF ls = <<>> THEN cur
    ELSE LET l == Head(ls)
             l_chars == chars_count(l)
         IN  IF cur_chars + l_chars + 1 > max
             THEN LET remain == saturating_sub(max, cur_chars)
                  IN  IF remain > 0
                      THEN cur \o take_prefix_chars(l, remain)
                      ELSE cur
             ELSE IF l # <<>>
                  THEN make_chunk_loop_no_newline_count(
                           Tail(ls), max, cur \o l \o <<"\n">>, cur_chars + l_chars)
                  ELSE make_chunk_loop_no_newline_count(Tail(ls), max, cur, cur_chars)

make_chunk_no_newline_count(ls, max) ==
    make_chunk_loop_no_newline_count(ls, max, <<>>, 0)

\* Mutant: an empty line is pushed like any other line (with its newline).
RECURSIVE make_chunk_loop_keeps_empty(_, _, _, _)
make_chunk_loop_keeps_empty(ls, max, cur, cur_chars) ==
    IF ls = <<>> THEN cur
    ELSE LET l == Head(ls)
             l_chars == chars_count(l)
         IN  IF cur_chars + l_chars + 1 > max
             THEN LET remain == saturating_sub(max, cur_chars)
                  IN  IF remain > 0
                      THEN cur \o take_prefix_chars(l, remain)
                      ELSE cur
             ELSE make_chunk_loop_keeps_empty(Tail(ls), max, cur \o l \o <<"\n">>,
                                              cur_chars + l_chars + 1)

make_chunk_keeps_empty(ls, max) == make_chunk_loop_keeps_empty(ls, max, <<>>, 0)

make_chunk(ls, max) == make_chunk_loop(ls, max, <<>>, 0)

(***************************************************************************)
(* main.rs: the ETL binary's own take_prefix_chars and make_chunk          *)
(* (lengths taken with str::len, in bytes).                                *)
(***************************************************************************)
\* str::char_indices: the byte offset at which each character starts.
char_indices(str) == [i \in 1..Len(str) |-> str_len(SubSeq(str, 1, i - 1))]

\* The for loop of take_prefix_chars over char_indices, from position i on.
RECURSIVE main_cut_loop(_, _, _, _)
main_cut_loop(idxs, i, max, cut) ==
    IF i > Len(idxs) THEN cut
    ELSE IF idxs[i] <= max
         THEN main_cut_loop(idxs, i + 1, max, idxs[i])
         ELSE cut

\* s[..cut]: the characters that start before byte offset cut.
byte_prefix(str, cut) ==
    LET idxs == char_indices(str)
    IN  SubSeq(str, 1, Cardinality({i \in 1..Len(str) : idxs[i] < cut}))

main_take_prefix_chars(str, max) ==
    IF str_len(str) <= max THEN str
    ELSE byte_prefix(str, main_cut_loop(char_indices(str), 1, max, 0))

RECURSIVE main_make_chunk_loop(_, _, _)
main_make_chunk_loop(ls, max, cur) ==
    IF ls = <<>> THEN cur
    ELSE LET l == Head(ls)
         IN  IF str_len(cur) + str_len(l) + 1 > max
             THEN LET remain == saturating_sub(max, str_len(cur))
                  IN  IF remain > 0
                      THEN cur \o main_take_prefix_chars(l, remain)
                      ELSE cur
             ELSE IF l # <<>>
                  THEN main_make_chunk_loop(Tail(ls), max, cur \o l \o <<"\n">>)
                  ELSE main_make_chunk_loop(Tail(ls), max, cur)

main_make_chunk(ls, max) == main_make_chunk_loop(ls, max, <<>>)

(***************************************************************************)
(* The chunker specification: Init draws the inputs, one action per call.  *)
(***************************************************************************)
ChunkChars == {"a", "U+00E9"}
ChunkLines == SeqsUpTo(ChunkChars, MaxLineLen)
ChunkBudgets == 0..MaxBudget

InitIdle ==
    /\ pc = "start"
    /\ ret = <<>>
    /\ lines = <<>>
    /\ max_chars = 0
    /\ s = <<>>
    /\ dom = <<>>
    /\ posts = <<>>
    /\ topic_summaries_llm = <<>>
    /\ calls = <<>>
    /\ client = ClientIdle
    /\ etl = EtlIdle

InitChunk ==
    /\ pc = "start"
    /\ ret = <<>>
    /\ lines \in SeqsUpTo(ChunkLines, MaxLines)
    /\ max_chars \in ChunkBudgets
    /\ s \in IF lines = <<>> THEN ChunkLines \cup {<<"a", "U+1F431", "b">>} ELSE {<<>>}
    /\ dom = <<>>
    /\ posts = <<>>
    /\ topic_summaries_llm = <<>>
    /\ calls = <<>>
    /\ client = ClientIdle
    /\ etl = EtlIdle

Call(name, value) ==
    /\ pc = "start"
    /\ pc' = name
    /\ ret' = value

MakeChunk ==
    /\ Call("make_chunk", make_chunk(lines, max_chars))
    /\ UNCHANGED <<lines, max_chars, s, dom, posts, topic_summaries_llm, calls, client, etl>>

TakePrefixChars ==
    /\ Call("take_prefix_chars", take_prefix_chars(s, max_chars))
    /\ UNCHANGED <<lines, max_chars, s, dom, posts, topic_summaries_llm, calls, client, etl>>

MainMakeChunk ==
    /\ Call("main_make_chunk", main_make_chunk(lines, max_chars))
    /\ UNCHANGED <<lines, max_chars, s, dom, posts, topic_summaries_llm, calls, client, etl>>

MainTakePrefixChars ==
    /\ Call("main_take_prefix_chars", main_take_prefix_chars(s, max_chars))
    /\ UNCHANGED <<lines, max_chars, s, dom, posts, topic_summaries_llm, calls, client, etl>>

NextChunk == MakeChunk \/ TakePrefixChars \/ MainMakeChunk \/ MainTakePrefixChars

SpecChunk == InitChunk /\ [][NextChunk]_vars

(***************************************************************************)
(* lib.rs: squeeze_ws and strip_tags_fast.                                 *)
(***************************************************************************)
\* The for loop of squeeze_ws over the characters of str.
RECURSIVE squeeze_ws_loop(_, _, _)
squeeze_ws_loop(str, out, prev_space) ==
    IF str = <<>> THEN out
    ELSE LET ch == Head(str)
         IN  IF is_whitespace(ch)
             THEN IF ~prev_space
                  THEN squeeze_ws_loop(Tail(str), Append(out, " "), TRUE)
                  ELSE squeeze_ws_loop(Tail(str), out, prev_space)
             ELSE squeeze_ws_loop(Tail(str), Append(out, ch), FALSE)

\* Mutant: a whitespace run is not collapsed, every whitespace character
\* becomes a space.
RECURSIVE squeeze_ws_keeps_runs(_)
squeeze_ws_keeps_runs(str) ==
    IF str = <<>> THEN <<>>
    ELSE <<IF is_whitespace(Head(str)) THEN " " ELSE Head(str)>>
             \o squeeze_ws_keeps_runs(Tail(str))

\* Mutant: prev_space starts as true, so a leading whitespace run is dropped.
squeeze_ws_drops_leading(str) == squeeze_ws_loop(str, <<>>, TRUE)

squeeze_ws(str) == squeeze_ws_loop(str, <<>>, FALSE)

\* str::trim: leading and trailing whitespace removed.
RECURSIVE trim_start(_)
trim_start(str) ==
    IF str # <<>> /\ is_whitespace(Head(str)) THEN trim_start(Tail(str)) ELSE str

RECURSIVE trim_end(_)
trim_end(str) ==
    IF str # <<>> /\ is_whitespace(str[Len(str)])
    THEN trim_end(SubSeq(str, 1, Len(str) - 1))
    ELSE str

trim(str) == trim_end(trim_start(str))

\* Nodes of the parsed tree (markup5ever_rcdom NodeData).
Text(contents) == [data |-> "Text", contents |-> contents, children |-> <<>>]
Element(name, children) == [data |-> "Element", name |-> name, children |-> children]
Comment == [data |-> "Comment", children |-> <<>>]

\* The names after which walk pushes a space.
is_block(local) ==
    local \in {"address", "article", "aside", "blockquote", "canvas", "dd", "div",
               "dl", "dt", "fieldset", "figcaption", "figure", "footer", "form",
               "h1", "h2", "h3", "h4", "h5", "h6", "header", "hr", "li", "main",
               "nav", "noscript", "ol", "output", "p", "pre", "section", "table",
               "tfoot", "ul", "video", "tr", "td", "th", "br"}

\* Mutant: only script is dropped, style is walked.
is_script_only(local) == local = "script"

\* eq_ignore_ascii_case("script") / ("style"): the parser gives HTML names in lower case.
is_script_or_style(local) == local \in {"script", "style"}

\* walk: the text a node appends to out.
RECURSIVE walk(_)
RECURSIVE walk_children(_)
walk_children(children) ==
    IF children = <<>> THEN <<>>
    ELSE walk(Head(children)) \o walk_children(Tail(children))

\* Mutant: the separator of a block is pushed before its children, not after.
walk_space_first(handle) ==
    CASE handle.data = "Text" -> handle.contents
      [] handle.data = "Element" ->
            IF is_script_or_style(handle.name) THEN <<>>
            ELSE (IF is_block(handle.name) THEN <<" ">> ELSE <<>>)
                 \o walk_children(handle.children)
      [] OTHER -> walk_children(handle.children)

walk(handle) ==
    CASE handle.data = "Text" -> handle.contents
      [] handle.data = "Element" ->
            IF is_script_or_style(handle.name) THEN <<>>
            ELSE walk_children(handle.children)
                 \o (IF is_block(handle.name) THEN <<" ">> ELSE <<>>)
      [] OTHER -> walk_children(handle.children)

\* Mutant: the walked text is squeezed without being trimmed.
extract_text_no_trim(document_children) == squeeze_ws(walk_children(document_children))

\* Lines 92-96: walk the children of the document node, trim, squeeze.
extract_text(document_children) == squeeze_ws(trim(walk_children(document_children)))

\* html5ever, input stream: CR LF and CR become LF.
RECURSIVE normalize_newlines(_)
normalize_newlines(str) ==
    IF str = <<>> THEN <<>>
    ELSE IF Head(str) = "\r"
         THEN <<"\n">> \o normalize_newlines(
                  IF Len(str) > 1 /\ str[2] = "\n" THEN Tail(Tail(str)) ELSE Tail(str))
         ELSE <<Head(str)>> \o normalize_newlines(Tail(str))

\* html5ever, tree builder before the body exists: ASCII whitespace is ignored.
is_ascii_whitespace(ch) == ch \in {" ", "\t", "\n", "\r"}

RECURSIVE skip_ascii_whitespace(_)
skip_ascii_whitespace(str) ==
    IF str # <<>> /\ is_ascii_whitespace(Head(str))
    THEN skip_ascii_whitespace(Tail(str))
    ELSE str

\* html5ever, "in body": a U+0000 character token is ignored.
drop_nul(str) == SelectSeq(str, LAMBDA ch : ch # "U+0000")

\* html5ever::parse_document(..).one(html) for an html without '<' and '&': the
\* children of the document node.  A leading byte order mark is discarded, newlines
\* are normalised, whitespace before the first other character is ignored, and
\* the rest is the one text node of body, without its U+0000 characters.
parse_document(html) ==
    LET no_bom == IF html # <<>> /\ Head(html) = "U+FEFF" THEN Tail(html) ELSE html
        body_text == drop_nul(skip_ascii_whitespace(normalize_newlines(no_bom)))
    IN  <<Element("html",
                  <<Element("head", <<>>),
                    Element("body", IF body_text = <<>> THEN <<>>
                                    ELSE <<Text(body_text)>>)>>)>>

\* The document node's children for a body with the given child nodes.
document_of(body_children) ==
    <<Element("html", <<Element("head", <<>>), Element("body", body_children)>>)>>

strip_tags_fast(html) == extract_text(parse_document(html))

(***************************************************************************)
(* main.rs: the ETL binary's own strip_tags_fast (regular expression).     *)
(***************************************************************************)
\* TAGS_RE.replace_all(html, " "): each leftmost match of <[^>]*> becomes a space.
RECURSIVE replace_tags(_)
replace_tags(str) ==
    IF str = <<>> THEN <<>>
    ELSE LET closing == {j \in 2..Len(str) : str[j] = ">"}
         IN  IF Head(str) = "<" /\ closing # {}
             THEN LET j == CHOOSE k \in closing : \A m \in closing : k <= m
                  IN  <<" ">> \o replace_tags(SubSeq(str, j + 1, Len(str)))
             ELSE <<Head(str)>> \o replace_tags(Tail(str))

main_strip_tags_fast(html) == squeeze_ws(trim(replace_tags(html)))

(***************************************************************************)
(* The text specification: squeeze_ws and strip_tags_fast on strings.      *)
(***************************************************************************)
MaxTextLen == 4     \* characters per input string

TextChars == {"a", " ", "\n", "\r", "U+0000", "U+FEFF", "<", ">"}

Contains(str, ch) == \E i \in 1..Len(str) : str[i] = ch

InitText ==
    /\ pc = "start"
    /\ ret = <<>>
    /\ lines = <<>>
    /\ max_chars = 0
    /\ s \in SeqsUpTo(TextChars, MaxTextLen)
    /\ dom = <<>>
    /\ posts = <<>>
    /\ topic_summaries_llm = <<>>
    /\ calls = <<>>
    /\ client = ClientIdle
    /\ etl = EtlIdle

SqueezeWs ==
    /\ Call("squeeze_ws", squeeze_ws(s))
    /\ UNCHANGED <<lines, max_chars, s, dom, posts, topic_summaries_llm, calls, client, etl>>

\* parse_document is modelled for inputs without markup: no '<' (and no '&', which
\* TextChars does not have).
StripTagsFast ==
    /\ ~Contains(s, "<")
    /\ Call("strip_tags_fast", strip_tags_fast(s))
    /\ UNCHANGED <<lines, max_chars, s, dom, posts, topic_summaries_llm, calls, client, etl>>

MainStripTagsFast ==
    /\ Call("main_strip_tags_fast", main_strip_tags_fast(s))
    /\ UNCHANGED <<lines, max_chars, s, dom, posts, topic_summaries_llm, calls, client, etl>>

NextText == SqueezeWs \/ StripTagsFast \/ MainStripTagsFast

SpecText == InitText /\ [][NextText]_vars

(***************************************************************************)
(* The tree specification: strip_tags_fast from the parsed tree on.  dom   *)
(* is the list of child nodes of body in the tree parse_document built.    *)
(***************************************************************************)
MaxNodes == 4       \* nodes below body

DomNames == {"p", "b", "script", "style"}
DomTexts == {<<"a">>, <<"x", " ">>}

DomLeaves ==
    {Text(c) : c \in DomTexts} \cup {Comment} \cup {Element(nm, <<>>) : nm \in DomNames}

\* ForestTable[n + 1] is the set of forests (sequences of trees) with exactly n
\* nodes, for n < MaxNodes, built from the smaller ones: F holds the forests of
\* 0..n-1 nodes and T the trees of 1..n-1 nodes.
RECURSIVE BuildForests(_, _, _)
BuildForests(n, F, T) ==
    IF n >= MaxNodes THEN F
    ELSE LET Tn == IF n = 1 THEN DomLeaves
                   ELSE {Element(nm, f) : nm \in DomNames, f \in F[n]}
             T2 == Append(T, Tn)
             Fn == UNION {{<<t>> \o f : t \in T2[k], f \in F[n - k + 1]} : k \in 1..n}
         IN  BuildForests(n + 1, Append(F, Fn), T2)

ForestTable == BuildForests(1, <<{<<>>}>>, <<>>)

Forest(n) == ForestTable[n + 1]

\* dom is a forest of at most MaxNodes nodes: empty, or a first tree of k nodes
\* followed by a forest of m nodes.
InitDom ==
    /\ pc = "start"
    /\ ret = <<>>
    /\ lines = <<>>
    /\ max_chars = 0
    /\ s = <<>>
    /\ \/ dom = <<>>
       \/ \E k \in 1..MaxNodes :
            \E m \in 0..(MaxNodes - k) :
               \E rest \in Forest(m) :
                  \/ /\ k = 1
                     /\ \E leaf \in DomLeaves : dom = <<leaf>> \o rest
                  \/ /\ k > 1
                     /\ \E nm \in DomNames :
                           \E inner \in Forest(k - 1) :
                              dom = <<Element(nm, inner)>> \o rest
    /\ posts = <<>>
    /\ topic_summaries_llm = <<>>
    /\ calls = <<>>
    /\ client = ClientIdle
    /\ etl = EtlIdle

\* strip_tags_fast after parse_document returned a document with body children dom.
ExtractText ==
    /\ Call("extract_text", extract_text(document_of(dom)))
    /\ UNCHANGED <<lines, max_chars, s, dom, posts, topic_summaries_llm, calls, client, etl>>

NextDom == ExtractText

SpecDom == InitDom /\ [][NextDom]_vars

(***************************************************************************)
(* prompt_hash: lib.rs, llm.rs and main.rs.                                *)
(***************************************************************************)
\* str::as_bytes: the UTF-8 encoding of a string.
\* The printable ASCII characters, U+0020 to U+007E, in order.
AsciiPrintable ==
    <<" ", "!", "\"", "#", "$", "%", "&", "'", "(", ")", "*", "+", ",", "-", ".", "/",
      "0", "1", "2", "3", "4", "5", "6", "7", "8", "9", ":", ";", "<", "=", ">", "?",
      "@", "A", "B", "C", "D", "E", "F", "G", "H", "I", "J", "K", "L", "M", "N", "O",
      "P", "Q", "R", "S", "T", "U", "V", "W", "X", "Y", "Z", "[", "\\", "]", "^", "_",
      "U+0060", "a", "b", "c", "d", "e", "f", "g", "h", "i", "j", "k", "l", "m", "n", "o",
      "p", "q", "r", "s", "t", "u", "v", "w", "x", "y", "z", "{", "|", "}", "~">>

Utf8Bytes(ch) ==
    CASE ch = "\n" -> <<10>>
      [] ch = "m" -> <<109>>
      [] ch = "p" -> <<112>>
      [] ch = "U+00E9" -> <<195, 169>>
      [] ch = "U+0000" -> <<0>>
      [] ch = "U+0001" -> <<1>>
      [] OTHER -> <<31 + CHOOSE i \in 1..Len(AsciiPrintable) : AsciiPrintable[i] = ch>>

RECURSIVE as_bytes(_)
as_bytes(str) ==
    IF str = <<>> THEN <<>>
    ELSE IF Len(str) = 1 THEN Utf8Bytes(str[1])
    ELSE LET half == Len(str) \div 2
         IN  as_bytes(SubSeq(str, 1, half)) \o as_bytes(SubSeq(str, half + 1, Len(str)))

\* i64::to_be_bytes for |n| < 2^31: two's complement, most significant byte first.
to_be_bytes(n) ==
    LET sign == IF n < 0 THEN 255 ELSE 0
    IN  <<sign, sign, sign, sign,
          (n \div 16777216) % 256, (n \div 65536) % 256, (n \div 256) % 256, n % 256>>

\* Mutant: the topic id is written least significant byte first.
to_le_bytes(n) ==
    LET sign == IF n < 0 THEN 255 ELSE 0
    IN  <<n % 256, (n \div 256) % 256, (n \div 65536) % 256, (n \div 16777216) % 256,
          sign, sign, sign, sign>>

\* Sha256 over the bytes fed to update, and format!("{:x}") of the digest.  The
\* digest is not computed: it is a value that names the hashed bytes, so two
\* digests are equal exactly when the hashed bytes are (no collisions).
Sha256(bytes) == [sha256 |-> bytes]
LowerHex(digest) == [hex |-> digest]

prompt_hash(topic_id, model, prompt) ==
    LowerHex(Sha256(as_bytes(model) \o <<10>> \o to_be_bytes(topic_id) \o <<10>>
                    \o as_bytes(prompt)))

llm_prompt_hash(topic_id, model, prompt) ==
    LowerHex(Sha256(as_bytes(model) \o <<10>> \o to_be_bytes(topic_id) \o <<10>>
                    \o as_bytes(prompt)))

\* Mutant: this copy writes the topic id little-endian.
main_prompt_hash_little_endian(topic_id, model, prompt) ==
    LowerHex(Sha256(as_bytes(model) \o <<10>> \o to_le_bytes(topic_id) \o <<10>>
                    \o as_bytes(prompt)))

main_prompt_hash(topic_id, model, prompt) ==
    LowerHex(Sha256(as_bytes(model) \o <<10>> \o to_be_bytes(topic_id) \o <<10>>
                    \o as_bytes(prompt)))

(***************************************************************************)
(* The fingerprint specification: calls of the three copies, remembered.   *)
(***************************************************************************)
MaxCalls == 2       \* calls remembered

HashTopicIds == {1, 256, -2}
\* The characters whose UTF-8 bytes are to_be_bytes(1), between two newlines.
TopicOneInText ==
    <<"\n", "U+0000", "U+0000", "U+0000", "U+0000", "U+0000", "U+0000", "U+0000", "U+0001",
      "\n">>
HashModels == {<<"m">>, <<"m">> \o TopicOneInText \o <<"p">>}
HashPrompts == {<<"p">>, <<"U+00E9", "\n", "p">>, <<"p">> \o TopicOneInText \o <<"p">>}

InitHash == InitIdle

HashCall(copy, topic_id, model, prompt, digest) ==
    /\ Len(calls) < MaxCalls
    /\ calls' = <<[copy |-> copy, topic_id |-> topic_id, model |-> model,
                   prompt |-> prompt, digest |-> digest]>> \o calls
    /\ pc' = copy
    /\ ret' = digest
    /\ UNCHANGED <<lines, max_chars, s, dom, posts, topic_summaries_llm, client, etl>>

PromptHash ==
    \E topic_id \in HashTopicIds, model \in HashModels, prompt \in HashPrompts :
        HashCall("lib::prompt_hash", topic_id, model, prompt,
                 prompt_hash(topic_id, model, prompt))

LlmPromptHash ==
    \E topic_id \in HashTopicIds, model \in HashModels, prompt \in HashPrompts :
        HashCall("llm::prompt_hash", topic_id, model, prompt,
                 llm_prompt_hash(topic_id, model, prompt))

MainPromptHash ==
    \E topic_id \in HashTopicIds, model \in HashModels, prompt \in HashPrompts :
        HashCall("main::prompt_hash", topic_id, model, prompt,
                 main_prompt_hash(topic_id, model, prompt))

NextHash == PromptHash \/ LlmPromptHash \/ MainPromptHash

SpecHash == InitHash /\ [][NextHash]_vars

(***************************************************************************)
(* The incremental guard: posts_changed_since_last_llm (lib.rs, main.rs)   *)
(* over the tables posts and topic_summaries_llm.                          *)
(***************************************************************************)
MaxTime == 2        \* timestamps are 0..MaxTime

Times == 0..MaxTime
PostIds == {1, 2}
TopicIds == {1, 2}

\* SELECT MAX(created_at) FROM posts WHERE topic_id = $1
select_max_created_at(topic_id) ==
    LET of_topic == {TheRow(posts[id]).created_at :
                        id \in {i \in PostIds : posts[i] # NoRow
                                                 /\ TheRow(posts[i]).topic_id = topic_id}}
    IN  IF of_topic = {} THEN None
        ELSE Some(CHOOSE m \in of_topic : \A c \in of_topic : c <= m)

\* SELECT updated_at FROM topic_summaries_llm WHERE topic_id = $1, fetch_optional
\* and flatten: no row gives None, a row gives its updated_at, None when NULL.
select_updated_at(topic_id) ==
    IF topic_summaries_llm[topic_id] = NoRow THEN None
    ELSE TheRow(topic_summaries_llm[topic_id]).updated_at

\* Mutant: equal timestamps count as changed.
guard_match_not_strict(max_created, last_llm) ==
    CASE max_created = None -> FALSE
      [] max_created # None /\ last_llm = None -> TRUE
      [] OTHER -> Unwrap(max_created) >= Unwrap(last_llm)

\* The match on (max_created, last_llm).
guard_match(max_created, last_llm) ==
    CASE max_created = None -> FALSE
      [] max_created # None /\ last_llm = None -> TRUE
      [] OTHER -> Unwrap(max_created) > Unwrap(last_llm)

posts_changed_since_last_llm(topic_id) ==
    guard_match(select_max_created_at(topic_id), select_updated_at(topic_id))

main_posts_changed_since_last_llm(topic_id) ==
    LET max_created == select_max_created_at(topic_id)
        last_llm == select_updated_at(topic_id)
    IN  CASE max_created = None -> FALSE
          [] max_created # None /\ last_llm = None -> TRUE
          [] OTHER -> Unwrap(max_created) > Unwrap(last_llm)

InitGuard ==
    /\ pc = "start"
    /\ ret = <<>>
    /\ lines = <<>>
    /\ max_chars = 0
    /\ s = <<>>
    /\ dom = <<>>
    /\ posts = [id \in PostIds |-> NoRow]
    /\ topic_summaries_llm = [t \in TopicIds |-> NoRow]
    /\ calls = <<>>
    /\ client = ClientIdle
    /\ etl = EtlIdle

\* INSERT INTO posts ... ON CONFLICT (id) DO UPDATE: the row of the id is replaced.
UpsertPost ==
    \E id \in PostIds, topic_id \in TopicIds, created_at \in Times :
        /\ posts' = [posts EXCEPT
                         ![id] = RowOf([topic_id |-> topic_id, created_at |-> created_at])]
        /\ pc' = "start"
        /\ ret' = <<>>
        /\ UNCHANGED <<lines, max_chars, s, dom, topic_summaries_llm, calls, client, etl>>

\* A row of topic_summaries_llm is inserted or its updated_at is set.
WriteSummary ==
    \E topic_id \in TopicIds, updated_at \in {Some(ts) : ts \in Times} \cup {NULL} :
        /\ topic_summaries_llm' =
               [topic_summaries_llm EXCEPT ![topic_id] = RowOf([updated_at |-> updated_at])]
        /\ pc' = "start"
        /\ ret' = <<>>
        /\ UNCHANGED <<lines, max_chars, s, dom, posts, calls, client, etl>>

PostsChangedSinceLastLlm ==
    \E topic_id \in TopicIds :
        /\ pc' = "posts_changed_since_last_llm"
        /\ ret' = [topic_id |-> topic_id, changed |-> posts_changed_since_last_llm(topic_id)]
        /\ UNCHANGED <<lines, max_chars, s, dom, posts, topic_summaries_llm, calls, client, etl>>

MainPostsChangedSinceLastLlm ==
    \E topic_id \in TopicIds :
        /\ pc' = "main_posts_changed_since_last_llm"
        /\ ret' = [topic_id |-> topic_id,
                   changed |-> main_posts_changed_since_last_llm(topic_id)]
        /\ UNCHANGED <<lines, max_chars, s, dom, posts, topic_summaries_llm, calls, client, etl>>

NextGuard ==
    UpsertPost \/ WriteSummary \/ PostsChangedSinceLastLlm \/ MainPostsChangedSinceLastLlm

SpecGuard == InitGuard /\ [][NextGuard]_vars

(***************************************************************************)
(* The summarization clients: summarize_with_ollama of ollama.rs (the      *)
(* library client), of main.rs (the ETL binary's copy) and of llm.rs.      *)
(* Each runs one HTTP attempt after another under backoff's retry with an  *)
(* ExponentialBackoff whose max_elapsed_time is set.  Time is counted in   *)
(* ticks of a quarter of a second; a text is a sequence of tokens, so that *)
(* the tokenizer's count is its length.                                    *)
(***************************************************************************)
TicksPerSecond == 4
InitialInterval == 2         \* backoff default initial_interval, 500 ms
MaxInterval == 240           \* backoff default max_interval, 60 s
DefaultMaxElapsedSecs == 120 \* ollama.rs and main.rs
LlmMaxElapsedSecs == 20      \* llm.rs

\* What one attempt can meet: the request fails to be sent or answered, or an
\* answer of some status class arrives; a 2xx body decodes as ChatResp or not.
Outcomes == {"transport", "4xx", "5xx", "3xx", "2xx_undecodable", "2xx"}

SYSTEM == <<"You", "are", "summarizing">>
ClientPrompts == {<<>>, <<"chunk", "more">>}
RawTexts == {<<>>, <<"Headline">>, <<"{", "headline", "}">>, <<"{", "headline">>}

\* BPE.encode_with_special_tokens(text).len()
bpe_len(text) == Len(text)

\* serde_json::from_str::<Summary>(&raw): Some(summary) for a JSON object, else None.
parse_summary(raw) ==
    IF Len(raw) >= 2 /\ raw[1] = "{" /\ raw[Len(raw)] = "}"
    THEN Some([headline |-> SubSeq(raw, 2, Len(raw) - 1)])
    ELSE None

\* The answer of one attempt of the closure op: "ok", a "permanent" error, or a
\* "transient" error (retried).
ollama_op_4xx_transient(outcome, raw) ==
    CASE outcome = "transport" -> "transient"
      [] outcome = "4xx" -> "transient"
      [] outcome \in {"5xx", "3xx"} -> "transient"
      [] outcome = "2xx_undecodable" -> "transient"
      [] OTHER -> "ok"

\* Mutant: a decodable 2xx answer is retried like a failure.
ollama_op_success_retried(outcome, raw) ==
    CASE outcome = "4xx" -> "permanent"
      [] OTHER -> "transient"

ollama_op(outcome, raw) ==
    CASE outcome = "transport" -> "transient"            \* send failed
      [] outcome = "4xx" -> "permanent"                  \* status.is_client_error()
      [] outcome \in {"5xx", "3xx"} -> "transient"       \* !status.is_success()
      [] outcome = "2xx_undecodable" -> "transient"      \* resp.json() failed
      [] OTHER -> "ok"

main_op(outcome, raw) ==
    CASE outcome = "transport" -> "transient"
      [] outcome \in {"4xx", "5xx", "3xx"} -> "transient"  \* !resp.status().is_success()
      [] outcome = "2xx_undecodable" -> "transient"
      [] parse_summary(raw) = None -> "transient"          \* serde_json::from_str failed
      [] OTHER -> "ok"

\* llm.rs: a 5xx is transient; every error passed on by `?` becomes a
\* backoff::Error through From, which makes it transient.
llm_op(outcome, raw) ==
    CASE outcome = "5xx" -> "transient"
      [] outcome \in {"transport", "4xx", "3xx", "2xx_undecodable"} -> "transient"
      [] OTHER -> "ok"

op(variant, outcome, raw) ==
    CASE variant = "ollama" -> ollama_op(outcome, raw)
      [] variant = "main" -> main_op(outcome, raw)
      [] OTHER -> llm_op(outcome, raw)

\* max_elapsed_time of the variant, in ticks; env is OLLAMA_MAX_ELAPSED_SECS
\* parsed as u64 (None when unset or not a number).
max_elapsed_time(variant, env) ==
    CASE variant = "ollama" ->
             (IF env = None THEN DefaultMaxElapsedSecs ELSE Unwrap(env)) * TicksPerSecond
      [] variant = "main" -> DefaultMaxElapsedSecs * TicksPerSecond
      [] OTHER -> LlmMaxElapsedSecs * TicksPerSecond

\* ExponentialBackoff: the randomized interval lies within half the current
\* interval of it (randomization_factor 0.5); three of its values are tried.
RandomizedIntervals(current_interval) ==
    {current_interval - current_interval \div 2,
     current_interval,
     current_interval + current_interval \div 2}

\* increment_current_interval: multiplier 1.5, capped at max_interval.
increment_current_interval(current_interval) ==
    IF 3 * current_interval >= 2 * MaxInterval
    THEN MaxInterval
    ELSE (3 * current_interval) \div 2

\* next_backoff: None once the elapsed time passed max_elapsed_time or the
\* next wait would end after it, else the wait.
next_backoff(elapsed, randomized_interval, max_elapsed) ==
    IF elapsed > max_elapsed THEN None
    ELSE IF elapsed + randomized_interval <= max_elapsed
         THEN Some(randomized_interval)
         ELSE None

\* The clock of the backoff after an attempt that took `took` ticks and a sleep
\* of `wait` ticks.
clock_stopped(elapsed, took, wait) == elapsed

clock_after(elapsed, took, wait) == elapsed + took + wait

\* Token counts returned with a successful answer.
llm_tokens(in_tok, raw) == [in_tok |-> 0, out_tok |-> 0]

ollama_tokens(in_tok, raw) == [in_tok |-> in_tok, out_tok |-> bpe_len(raw)]

tokens(variant, in_tok, raw) ==
    IF variant = "llm" THEN llm_tokens(in_tok, raw) ELSE ollama_tokens(in_tok, raw)

ClientVariants == {"ollama", "main", "llm"}
MaxElapsedSecs == 1      \* largest OLLAMA_MAX_ELAPSED_SECS tried
MaxAttemptTicks == 1     \* longest time one attempt takes
MaxRequests == 3         \* the count of requests stops there
EnvMaxElapsed == {None} \cup {Some(secs) : secs \in 0..MaxElapsedSecs}

InitClient ==
    /\ InitIdle

\* The call is made: the request body is built and in_tok is counted, once.
Summarize(variant, env) ==
    \E prompt \in ClientPrompts :
        /\ client.pc = "idle"
        /\ client' = [pc |-> "running",
                      variant |-> variant,
                      prompt |-> prompt,
                      in_tok |-> IF variant = "llm" THEN 0    \* llm.rs counts nothing
                                 ELSE bpe_len(SYSTEM) + bpe_len(prompt),
                      max_elapsed |-> max_elapsed_time(variant, env),
                      elapsed |-> 0,
                      current_interval |-> InitialInterval,
                      requests |-> 0,
                      last |-> "none",
                      body |-> <<>>,
                      only_transient |-> TRUE,
                      prior_only_transient |-> TRUE,
                      gave_up |-> None,
                      result |-> NoResult]
        /\ UNCHANGED <<pc, lines, max_chars, s, dom, ret, posts, topic_summaries_llm, calls, etl>>

SummarizeWithOllama == \E env \in EnvMaxElapsed : Summarize("ollama", env)

MainSummarizeWithOllama == Summarize("main", None)

LlmSummarizeWithOllama == Summarize("llm", None)

\* One attempt of op and what retry does with its answer: return it, or ask
\* next_backoff and either sleep or give up.
Attempt ==
    \E outcome \in Outcomes, raw \in RawTexts, took \in 0..MaxAttemptTicks,
       randomized_interval \in RandomizedIntervals(client.current_interval) :
        LET answer == op(client.variant, outcome, raw)
            now == clock_after(client.elapsed, took, 0)
            wait == next_backoff(now, randomized_interval, client.max_elapsed)
            sent == [client EXCEPT
                         !.requests = Min(@ + 1, MaxRequests),
                         !.last = outcome,
                         !.body = raw,
                         !.prior_only_transient = client.only_transient,
                         !.only_transient = @ /\ outcome \in {"transport", "5xx"},
                         !.elapsed = now]
        IN  /\ client.pc = "running"
            /\ outcome # "2xx" => raw = <<>>
            /\ client' =
                 CASE answer = "ok" ->
                          [sent EXCEPT
                               !.pc = "returned",
                               !.result = [ok |-> TRUE, raw |-> raw,
                                           in_tok |-> tokens(client.variant, client.in_tok, raw).in_tok,
                                           out_tok |-> tokens(client.variant, client.in_tok, raw).out_tok]]
                   [] answer = "permanent" ->
                          [sent EXCEPT !.pc = "returned"]
                   [] wait = None ->
                          [sent EXCEPT !.pc = "returned", !.gave_up = Some(randomized_interval)]
                   [] OTHER ->
                          [sent EXCEPT
                               !.elapsed = clock_after(client.elapsed, took, Unwrap(wait)),
                               !.current_interval = increment_current_interval(@)]
            /\ UNCHANGED <<pc, lines, max_chars, s, dom, ret, posts, topic_summaries_llm, calls, etl>>

NextClient ==
    SummarizeWithOllama \/ MainSummarizeWithOllama \/ LlmSummarizeWithOllama \/ Attempt

SpecClient == InitClient /\ [][NextClient]_vars

(***************************************************************************)
(* The output sanitizer strip_post_tags: every marker "[post:" digits,      *)
(* optional annotation, "]" is removed, then each line is whitespace-       *)
(* squeezed and right-trimmed and the lines are joined with single          *)
(* newlines.                                                                *)
(***************************************************************************)
POST_PREFIX == <<"[", "p", "o", "s", "t", ":">>

is_ascii_digit(ch) == ch \in {"0", "1", "2", "3", "4", "5", "6", "7", "8", "9"}

StartsWith(str, i, pat) ==
    /\ i + Len(pat) - 1 <= Len(str)
    /\ SubSeq(str, i, i + Len(pat) - 1) = pat

\* The first index from i on that holds "]", or 0.
RECURSIVE find_close(_, _)
find_close(str, i) ==
    IF i > Len(str) THEN 0
    ELSE IF str[i] = "]" THEN i
    ELSE find_close(str, i + 1)

\* The index of the last character of the marker that begins at i, or 0 when
\* none begins there: the prefix, one digit at least, then anything up to the
\* first "]".
marker_end_no_annotation(str, i) ==
    LET d == i + Len(POST_PREFIX)
    IN  IF StartsWith(str, i, POST_PREFIX) /\ d + 1 <= Len(str)
           /\ is_ascii_digit(str[d]) /\ str[d + 1] = "]"
        THEN d + 1
        ELSE 0

marker_end(str, i) ==
    LET d == i + Len(POST_PREFIX)
    IN  IF StartsWith(str, i, POST_PREFIX) /\ d <= Len(str) /\ is_ascii_digit(str[d])
        THEN find_close(str, d + 1)
        ELSE 0

\* One pass from left to right: a marker is skipped, any other character kept.
RECURSIVE remove_markers_from(_, _)
remove_markers_from(str, i) ==
    IF i > Len(str) THEN <<>>
    ELSE IF marker_end(str, i) > 0
         THEN remove_markers_from(str, marker_end(str, i) + 1)
         ELSE <<str[i]>> \o remove_markers_from(str, i + 1)

remove_markers(str) == remove_markers_from(str, 1)

\* str::lines: the text cut at every "\n" (a "\r" before it dropped), without
\* a last empty line.
strip_cr(line) ==
    IF line # <<>> /\ line[Len(line)] = "\r" THEN SubSeq(line, 1, Len(line) - 1) ELSE line

RECURSIVE str_lines_loop(_, _)
str_lines_loop(str, cur) ==
    IF str = <<>> THEN (IF cur = <<>> THEN <<>> ELSE <<cur>>)
    ELSE IF Head(str) = "\n"
         THEN <<strip_cr(cur)>> \o str_lines_loop(Tail(str), <<>>)
         ELSE str_lines_loop(Tail(str), Append(cur, Head(str)))

str_lines(str) == str_lines_loop(str, <<>>)

RECURSIVE join_newline(_)
join_newline(ls) ==
    IF ls = <<>> THEN <<>>
    ELSE IF Len(ls) = 1 THEN ls[1]
    ELSE ls[1] \o <<"\n">> \o join_newline(Tail(ls))

clean_line(line) == trim_end(squeeze_ws(line))

strip_post_tags(text) ==
    LET ls == str_lines(remove_markers(text))
    IN  join_newline([i \in 1..Len(ls) |-> clean_line(ls[i])])

\* The inputs: texts put together from pieces of markers and of plain text.
MaxPieces == 4
SanitizerPieces ==
    {<<"[", "p", "o">>,
     <<"s", "t", ":", "2", "]">>,
     <<"[", "p", "o", "s", "t", ":", "1", "]">>,
     <<"[", "p", "o", "s", "t", ":">>,
     <<"3", " ", "x", "]">>,
     <<" ">>, <<"\n">>, <<"\r">>, <<"a">>}

RECURSIVE Flatten(_)
Flatten(pieces) == IF pieces = <<>> THEN <<>> ELSE Head(pieces) \o Flatten(Tail(pieces))

InitSanitizer ==
    /\ pc = "start"
    /\ ret = <<>>
    /\ lines = <<>>
    /\ max_chars = 0
    /\ \E pieces \in SeqsUpTo(SanitizerPieces, MaxPieces) : s = Flatten(pieces)
    /\ dom = <<>>
    /\ posts = <<>>
    /\ topic_summaries_llm = <<>>
    /\ calls = <<>>
    /\ client = ClientIdle
    /\ etl = EtlIdle

StripPostTags ==
    /\ Call("strip_post_tags", strip_post_tags(s))
    /\ UNCHANGED <<lines, max_chars, s, dom, posts, topic_summaries_llm, calls, client, etl>>

NextSanitizer == StripPostTags

SpecSanitizer == InitSanitizer /\ [][NextSanitizer]_vars

(***************************************************************************)
(* Text preparation: load_plain_lines (lib.rs, and its copy in main.rs).   *)
(***************************************************************************)
MAX_POSTS_FOR_CHUNK == 200
CHUNK_MAX_CHARS == 1800

Digit(n) == AsciiPrintable[17 + n]     \* "0" is the 17th printable character

\* {id} of format!: the decimal digits of a positive id.
RECURSIVE Decimal(_)
Decimal(n) == IF n < 10 THEN <<Digit(n)>> ELSE Decimal(n \div 10) \o <<Digit(n % 10)>>

TwoDigits(n) == <<Digit(n \div 10), Digit(n % 10)>>

\* created_at.format(&Rfc3339), for a time t seconds after 1970-01-01T00:00:00Z
\* within the first hour.
rfc3339(t) ==
    <<"1", "9", "7", "0", "-", "0", "1", "-", "0", "1", "T", "0", "0", ":">>
        \o TwoDigits(t \div 60) \o <<":">> \o TwoDigits(t % 60) \o <<"Z">>

\* format!("[post:{id} @ {ts}] {t}")
format_line(id, ts, t) ==
    <<"[", "p", "o", "s", "t", ":">> \o Decimal(id) \o <<" ", "@", " ">> \o ts
        \o <<"]", " ">> \o t

\* SELECT id, created_at, cooked FROM posts WHERE topic_id = $1 ORDER BY
\* created_at ASC: the ids of the rows in that order.  SQL leaves the order of
\* rows of equal created_at open; ties says whether they come by ascending or
\* by descending id.
order_by_created_at_desc(topic_id, ties) ==
    LET ids == SelectSeq([id \in 1..Len(posts) |-> id],
                         LAMBDA id : /\ posts[id] # NoRow
                                     /\ TheRow(posts[id]).topic_id = topic_id)
        at(id) == TheRow(posts[id]).created_at
        before(a, b) == \/ at(a) > at(b)
                        \/ at(a) = at(b) /\ (IF ties = "id_asc" THEN a < b ELSE a > b)
    IN  SortSeq(ids, before)

order_by_created_at(topic_id, ties) ==
    LET ids == SelectSeq([id \in 1..Len(posts) |-> id],
                         LAMBDA id : /\ posts[id] # NoRow
                                     /\ TheRow(posts[id]).topic_id = topic_id)
        at(id) == TheRow(posts[id]).created_at
        before(a, b) == \/ at(a) < at(b)
                        \/ at(a) = at(b) /\ (IF ties = "id_asc" THEN a < b ELSE a > b)
    IN  SortSeq(ids, before)

\* LIMIT $2
limit(rows, n) == SubSeq(rows, 1, Min(Len(rows), n))

Ties == {"id_asc", "id_desc"}

\* The loop over the rows: a row whose extracted text is not empty gives a line.
lines_of_rows(ids, copy) ==
    LET line(id) ==
            LET r == TheRow(posts[id])
                t == IF copy = "main" THEN main_strip_tags_fast(r.cooked)
                     ELSE strip_tags_fast(r.cooked)
            IN  IF t # <<>> THEN Some(format_line(id, rfc3339(r.created_at), t)) ELSE None
        pushed == SelectSeq([k \in 1..Len(ids) |-> line(ids[k])], LAMBDA l : l # None)
    IN  [k \in 1..Len(pushed) |-> Unwrap(pushed[k])]

load_plain_lines(topic_id, ties) ==
    lines_of_rows(limit(order_by_created_at(topic_id, ties), MAX_POSTS_FOR_CHUNK), "lib")

main_load_plain_lines(topic_id, ties) ==
    lines_of_rows(limit(order_by_created_at(topic_id, ties), MAX_POSTS_FOR_CHUNK), "main")

\* The tables of posts on which load_plain_lines is called.  A small table has
\* rows for some of the ids 1..MaxStoredPosts, of two topics.  A long table
\* has MAX_POSTS_FOR_CHUNK or MAX_POSTS_FOR_CHUNK + 1 posts of topic 1, one
\* a second: oldest_first says whether the ids grow with created_at, and
\* the post of id blank (when not 0) has no text.
MaxNow == 1         \* the clock of the ETL runs goes from 0 to MaxNow
MaxStoredPosts == 2
TEST_MAX_CHARS == 80

\* cooked without markup: parse_document is modelled for such texts.
LineCooked == {<<" ">>, <<"a">>}

SmallTables ==
    [1..MaxStoredPosts ->
        {NoRow} \cup {RowOf([topic_id |-> t, created_at |-> c, cooked |-> k]) :
                          t \in TopicIds, c \in 0..MaxNow, k \in LineCooked}]

LongTable(n, oldest_first, blank) ==
    [id \in 1..n |->
        RowOf([topic_id |-> 1,
               created_at |-> IF oldest_first THEN id ELSE n + 1 - id,
               cooked |-> IF id = blank THEN <<" ">> ELSE <<"a">>])]

LongTables ==
    {LongTable(n, oldest_first, IF oldest_first THEN 0 ELSE 2) :
        n \in {MAX_POSTS_FOR_CHUNK, MAX_POSTS_FOR_CHUNK + 1},
        oldest_first \in BOOLEAN}

InitLines ==
    /\ pc = "start"
    /\ ret = <<>>
    /\ lines = <<>>
    /\ max_chars = 0
    /\ s = <<>>
    /\ dom = <<>>
    /\ posts \in SmallTables \cup LongTables
    /\ topic_summaries_llm = <<>>
    /\ calls = <<>>
    /\ client = ClientIdle
    /\ etl = EtlIdle

\* load_plain_lines(&pool, topic_id) followed by make_chunk(&lines, 80), as in
\* tests/db_text_prep.rs; it may be called again and again over the same posts.
LoadPlainLines ==
    \E topic_id \in TopicIds, ties \in Ties :
        LET loaded == load_plain_lines(topic_id, ties)
        IN  /\ pc' = "load_plain_lines"
            /\ ret' = [topic_id |-> topic_id, lines |-> loaded,
                       chunk |-> make_chunk(loaded, TEST_MAX_CHARS)]
            /\ UNCHANGED <<lines, max_chars, s, dom, posts, topic_summaries_llm,
                           calls, client, etl>>

NextLines == LoadPlainLines

SpecLines == InitLines /\ [][NextLines]_vars

(***************************************************************************)
(* The ETL loop of main (main.rs): for every topic of the latest list the  *)
(* posts are fetched and upserted, the guard is asked, the prompt is built *)
(* and summarize_with_ollama is called under an outer timeout.             *)
(***************************************************************************)
LLM_MODEL == <<"m">>
TopicLists == {<<1>>, <<1, 2>>, <<2, 1>>}
EtlCooked == {<<" ">>, <<"a">>}

topic_title(topic_id) == <<"T">> \o Decimal(topic_id)

\* build_prompt: the title and the chunk inside the fixed text (the
\* instructions after the excerpt are shortened to their first word).
build_prompt(title, chunk) ==
    <<"T", "h", "r", "e", "a", "d", ":", " ">> \o title
        \o <<"\n", "\n", "C", "o", "n", "t", "e", "n", "t", " ", "e", "x", "c", "e", "r", "p", "t", ":", "\n", "-", "-", "-", "\n">>
        \o chunk
        \o <<"\n", "-", "-", "-", "\n", "\n", "S", "u", "m", "m", "a", "r", "i", "z", "e">>

\* What the forum answers to fetch_topic: posts of the topic, each with its
\* created_at (not after now) and cooked.  Post 1 is a post of topic 1 with
\* text; post 2 is in either topic, with or without text.
ForumPosts(topic_id) == IF topic_id = 1 THEN {1, 2} ELSE {2}
ForumCooked(id) == IF id = 1 THEN {<<"a">>} ELSE EtlCooked
FetchedPosts(topic_id, now) ==
    UNION {{f \in [ids -> [created_at : 0..now, cooked : EtlCooked]] :
               \A id \in ids : f[id].cooked \in ForumCooked(id)} :
           ids \in SUBSET ForumPosts(topic_id)}

\* The end of one iteration of the loop: the next topic, or the end of the run.
next_topic(e) ==
    [e EXCEPT !.pc = IF Tail(e.todo) = <<>> THEN "done" ELSE "loop",
              !.todo = Tail(@),
              !.visited = Append(@, e.topic),
              !.outcome = "none"]

\* Err(_) and Ok(Err(e)) of the match: a warning, nothing else.
summarize_failed_propagates(e, outcome) ==
    [e EXCEPT !.pc = "failed", !.todo = <<>>, !.outcome = outcome]

summarize_failed(e, outcome) ==
    [next_topic(e) EXCEPT !.outcome = outcome, !.warned = @ \cup {e.topic}]

\* What the match on the result of the call leaves in topic_summaries_llm:
\* INSERT ... ON CONFLICT (topic_id) DO UPDATE SET ..., updated_at = now()
\* for Ok(Ok(..)), nothing for the other two arms.
summaries_after_always_written(outcome, topic_id, summary, phash, tok, updated_at) ==
    [topic_summaries_llm EXCEPT ![topic_id] =
        RowOf([summary |-> summary, model |-> LLM_MODEL, prompt_hash |-> phash,
               input_tokens |-> tok.in_tok, output_tokens |-> tok.out_tok,
               updated_at |-> updated_at])]

summaries_after(outcome, topic_id, summary, phash, tok, updated_at) ==
    IF outcome = "ok"
    THEN [topic_summaries_llm EXCEPT ![topic_id] =
             RowOf([summary |-> summary, model |-> LLM_MODEL, prompt_hash |-> phash,
                    input_tokens |-> tok.in_tok, output_tokens |-> tok.out_tok,
                    updated_at |-> updated_at])]
    ELSE topic_summaries_llm

InitEtl ==
    /\ pc = "start"
    /\ ret = <<>>
    /\ lines = <<>>
    /\ max_chars = 0
    /\ s = <<>>
    /\ dom = <<>>
    /\ posts = [id \in PostIds |-> NoRow]
    /\ topic_summaries_llm = [t \in TopicIds |-> NoRow]
    /\ calls = <<>>
    /\ client = ClientIdle
    /\ etl = EtlIdle

\* main up to the loop: fetch_latest gives the topics of the run, or fails.
FetchLatest ==
    \E topics \in TopicLists, fetched \in BOOLEAN :
        /\ etl.pc \in {"idle", "done", "failed"}
        /\ etl' = [etl EXCEPT !.pc = IF fetched THEN "loop" ELSE "failed",
                              !.topics = IF fetched THEN topics ELSE <<>>,
                              !.todo = IF fetched THEN topics ELSE <<>>,
                              !.visited = <<>>,
                              !.topic = 0,
                              !.prompt_hash = None,
                              !.stored_hash = None,
                              !.in_tok = 0,
                              !.outcome = "none",
                              !.warned = {}]
        /\ UNCHANGED <<pc, lines, max_chars, s, dom, ret, posts, topic_summaries_llm, calls, client>>

\* Time passes.
Tick ==
    /\ etl.now < MaxNow
    /\ etl' = [etl EXCEPT !.now = @ + 1]
    /\ UNCHANGED <<pc, lines, max_chars, s, dom, ret, posts, topic_summaries_llm, calls, client>>

\* The head of the iteration: fetch_topic and the upsert of its posts; a
\* failure of fetch_topic ends the run.
FetchTopic ==
    /\ etl.pc = "loop"
    /\ \E answered \in BOOLEAN, fetched \in FetchedPosts(Head(etl.todo), etl.now) :
           LET topic_id == Head(etl.todo)
           IN  /\ etl' = [etl EXCEPT !.pc = IF answered THEN "guard" ELSE "failed",
                                     !.todo = IF answered THEN @ ELSE <<>>,
                                     !.topic = topic_id,
                                     !.prompt_hash = None,
                                     !.stored_hash = None,
                                     !.in_tok = 0,
                                     !.outcome = "none"]
               /\ posts' = IF answered
                           THEN [id \in PostIds |->
                                    IF id \in DOMAIN fetched
                                    THEN RowOf([topic_id |-> topic_id,
                                                created_at |-> fetched[id].created_at,
                                                cooked |-> fetched[id].cooked])
                                    ELSE posts[id]]
                           ELSE posts
    /\ UNCHANGED <<pc, lines, max_chars, s, dom, ret, topic_summaries_llm, calls, client>>

\* The guard, the lines, the chunk, the prompt and its fingerprint; then the
\* call of summarize_with_ollama is made, unless the iteration ends before.
PrepareTopic ==
    \E ties \in Ties :
        LET topic_id == etl.topic
            loaded == main_load_plain_lines(topic_id, ties)
            chunk == main_make_chunk(loaded, CHUNK_MAX_CHARS)
            prompt == build_prompt(topic_title(topic_id), chunk)
            phash == main_prompt_hash(topic_id, LLM_MODEL, prompt)
        IN  /\ etl.pc = "guard"
            /\ etl' = IF ~main_posts_changed_since_last_llm(topic_id)
                         \/ loaded = <<>> \/ chunk = <<>>
                      THEN next_topic(etl)
                      ELSE [etl EXCEPT
                                !.pc = "summarizing",
                                !.prompt_hash = Some(phash),
                                !.in_tok = bpe_len(SYSTEM) + bpe_len(prompt),
                                !.stored_hash =
                                    IF topic_summaries_llm[topic_id] = NoRow THEN None
                                    ELSE Some(TheRow(topic_summaries_llm[topic_id]).prompt_hash)]
            /\ UNCHANGED <<pc, lines, max_chars, s, dom, ret, posts, topic_summaries_llm, calls, client>>

\* The call ends: with the answer of its last attempt (Ok with the parsed
\* Summary, or the error retry gave up on), or cut off by the outer timeout.
\* The row is written for Ok; a failure of that INSERT ends the run.
SummarizeEnds ==
    \E outcome \in Outcomes, raw \in RawTexts, timed_out \in BOOLEAN, inserted \in BOOLEAN :
        LET result == IF timed_out THEN "timeout"
                      ELSE IF main_op(outcome, raw) = "ok" THEN "ok" ELSE "err"
            topic_id == etl.topic
            \* updated_at = now(), taken to be the column's default as well
            updated_at == Some(etl.now)
        IN  /\ etl.pc = "summarizing"
            /\ outcome # "2xx" => raw = <<>>
            /\ result # "ok" => inserted
            /\ topic_summaries_llm' =
                   IF inserted
                   THEN summaries_after(result, topic_id, parse_summary(raw),
                                        Unwrap(etl.prompt_hash),
                                        ollama_tokens(etl.in_tok, raw), updated_at)
                   ELSE topic_summaries_llm
            /\ etl' = IF ~inserted
                      THEN [etl EXCEPT !.pc = "failed", !.todo = <<>>, !.outcome = result]
                      ELSE IF result = "ok" THEN [next_topic(etl) EXCEPT !.outcome = result]
                      ELSE summarize_failed(etl, result)
            /\ UNCHANGED <<pc, lines, max_chars, s, dom, ret, posts, calls, client>>

NextEtl == FetchLatest \/ Tick \/ FetchTopic \/ PrepareTopic \/ SummarizeEnds

SpecEtl == InitEtl /\ [][NextEtl]_vars

(***************************************************************************)
(* Claims about the chunker.                                               *)
(***************************************************************************)
\* The concatenation, in input order, of every non-empty line followed by one newline.
RECURSIVE ConcatLines(_)
ConcatLines(ls) ==
    IF ls = <<>> THEN <<>>
    ELSE (IF Head(ls) = <<>> THEN <<>> ELSE Head(ls) \o <<"\n">>) \o ConcatLines(Tail(ls))

IsPrefixOf(p, str) == Len(p) <= Len(str) /\ p = SubSeq(str, 1, Len(p))

HasMultiByte(str) == \E i \in 1..Len(str) : Utf8Len(str[i]) > 1

\* C1: the chunk returned by make_chunk (lib.rs) never has more than max_chars
\* characters, for every list of lines and every budget, 0 included.
C1_ChunkWithinBudget ==
    pc = "make_chunk" => chars_count(ret) <= max_chars

\* C1 witness: a chunk that fills the budget exactly, cut inside a later line, with
\* a multi-byte character in it (its byte length exceeds the budget).
C1_Witness ==
    /\ pc = "make_chunk"
    /\ max_chars > 0
    /\ chars_count(ret) = max_chars
    /\ chars_count(ConcatLines(lines)) > max_chars
    /\ HasMultiByte(ret)
    /\ str_len(ret) > max_chars

\* C2: make_chunk returns the first min(max_chars, n) characters of the
\* concatenation C of the non-empty lines, each followed by a newline (n = |C|).
C2_ChunkIsLongestPrefix ==
    pc = "make_chunk" =>
        LET C == ConcatLines(lines)
        IN  ret = SubSeq(C, 1, Min(max_chars, Len(C)))

\* C2 witness: an empty line was skipped, a later line was cut (the chunk does not
\* end with a newline) and a line after it was dropped.
C2_Witness ==
    /\ pc = "make_chunk"
    /\ Len(lines) = 3
    /\ lines[1] = <<>>
    /\ lines[2] # <<>>
    /\ lines[3] # <<>>
    /\ ret # <<>>
    /\ ret[Len(ret)] # "\n"
    /\ Len(ret) < Len(lines[2])

\* C3: take_prefix_chars (lib.rs) returns a prefix of s of at most max characters,
\* and s itself when s has at most max characters.
C3_TakePrefixChars ==
    pc = "take_prefix_chars" =>
        /\ IsPrefixOf(ret, s)
        /\ chars_count(ret) <= max_chars
        /\ (chars_count(s) <= max_chars => ret = s)

\* C3 witness: a string cut right after a multi-byte character.
C3_Witness ==
    /\ pc = "take_prefix_chars"
    /\ chars_count(s) > max_chars
    /\ ret # <<>>
    /\ Utf8Len(ret[Len(ret)]) > 1

\* C4: the ETL binary's make_chunk and take_prefix_chars (main.rs) return what the
\* library's functions return on the same input.
C4_EtlChunkerMatchesLibrary ==
    /\ pc = "main_make_chunk" => ret = make_chunk(lines, max_chars)
    /\ pc = "main_take_prefix_chars" => ret = take_prefix_chars(s, max_chars)

(***************************************************************************)
(* Claims about the whitespace normaliser and the text extractor.          *)
(***************************************************************************)
\* The positions of str that survive squeezing: every non-whitespace character and
\* the first character of every maximal whitespace run.
RunStarts(str) ==
    SelectSeq([i \in 1..Len(str) |-> i],
              LAMBDA i : ~is_whitespace(str[i]) \/ i = 1 \/ ~is_whitespace(str[i - 1]))

\* str with every maximal whitespace run replaced by one space.
RunsCollapsed(str) ==
    LET keep == RunStarts(str)
    IN  [k \in 1..Len(keep) |->
            IF is_whitespace(str[keep[k]]) THEN " " ELSE str[keep[k]]]

NoAdjacentWhitespace(str) ==
    \A i \in 1..(Len(str) - 1) : ~(is_whitespace(str[i]) /\ is_whitespace(str[i + 1]))

\* C5: squeeze_ws replaces each maximal whitespace run by one space, keeps the other
\* characters in order, does not trim, and leaves no two adjacent whitespace characters.
C5_SqueezeWs ==
    pc = "squeeze_ws" =>
        /\ ret = RunsCollapsed(s)
        /\ NoAdjacentWhitespace(ret)
        /\ (s # <<>> /\ is_whitespace(s[1]) => ret[1] = " ")
        /\ (s # <<>> /\ is_whitespace(s[Len(s)]) => ret[Len(ret)] = " ")

\* C5 witness: a leading run of two different whitespace characters, a character,
\* a trailing whitespace character.
C5_Witness ==
    /\ pc = "squeeze_ws"
    /\ Len(s) = 4
    /\ is_whitespace(s[1]) /\ is_whitespace(s[2]) /\ s[1] # s[2]
    /\ ~is_whitespace(s[3])
    /\ is_whitespace(s[4]) /\ s[4] # " "
    /\ ret = <<" ", s[3], " ">>

\* C6 as stated: for every text without '<' and '&', strip_tags_fast (either copy)
\* returns squeeze_ws(trim(t)).
C6_PlainTextIsSqueezedTrimmed ==
    (pc \in {"strip_tags_fast", "main_strip_tags_fast"} /\ ~Contains(s, "<")) =>
        ret = squeeze_ws(trim(s))

\* C6 amended: the equality holds for lib.rs when the text, besides '<' and '&',
\* has no U+0000 character and does not begin with a byte order mark (the parser
\* drops both); it holds for main.rs for every text without '<'.
C6_PlainTextAmended ==
    /\ (/\ pc = "strip_tags_fast"
        /\ ~Contains(s, "<")
        /\ ~Contains(s, "U+0000")
        /\ ~(s # <<>> /\ s[1] = "U+FEFF")) => ret = squeeze_ws(trim(s))
    /\ (pc = "main_strip_tags_fast" /\ ~Contains(s, "<")) => ret = squeeze_ws(trim(s))

\* C6 witness: a text with whitespace to trim and to squeeze went through the parser.
C6_Witness ==
    /\ pc = "strip_tags_fast"
    /\ Len(s) = 4
    /\ is_whitespace(s[1])
    /\ s[2] = "a"
    /\ s[3] = "\r"
    /\ s[4] = "U+FEFF"
    /\ ret = <<"a", " ", "U+FEFF">>

Ext(body_children) == extract_text(document_of(body_children))

Join(x, y) == IF x = <<>> \/ y = <<>> THEN x \o y ELSE x \o <<" ">> \o y

IsElementNamed(node, names) == node.data = "Element" /\ node.name \in names

\* C7: a block element (p) separates the text up to its end from the text after
\* it by exactly one space; an inline element (b) separates nothing: the result is
\* the same as with its children in its place.
C7_BlockSeparatesInlineJoins ==
    pc = "extract_text" =>
        \A i \in 1..Len(dom) :
            /\ IsElementNamed(dom[i], {"p"}) =>
                   ret = Join(Ext(SubSeq(dom, 1, i)), Ext(SubSeq(dom, i + 1, Len(dom))))
            /\ IsElementNamed(dom[i], {"b"}) =>
                   ret = Ext(SubSeq(dom, 1, i - 1) \o dom[i].children
                             \o SubSeq(dom, i + 1, Len(dom)))

\* C7 witness: two adjacent block elements with text, joined by one space.
C7_Witness ==
    /\ pc = "extract_text"
    /\ dom = <<Element("p", <<Text(<<"a">>)>>), Element("p", <<Text(<<"x", " ">>)>>)>>
    /\ ret = <<"a", " ", "x">>

\* The forest without its script and style elements, at every depth.
RECURSIVE Prune(_)
Prune(forest) ==
    IF forest = <<>> THEN <<>>
    ELSE LET node == Head(forest)
         IN  IF IsElementNamed(node, {"script", "style"})
             THEN Prune(Tail(forest))
             ELSE <<[node EXCEPT !.children = Prune(node.children)]>>
                  \o Prune(Tail(forest))

\* The characters of the text nodes of a forest.
RECURSIVE TextChars_of(_)
TextChars_of(forest) ==
    IF forest = <<>> THEN {}
    ELSE LET node == Head(forest)
         IN  (IF node.data = "Text"
              THEN {node.contents[i] : i \in 1..Len(node.contents)}
              ELSE TextChars_of(node.children))
             \cup TextChars_of(Tail(forest))

\* C8: the output is what it would be with every script and style element removed
\* from the tree, and a character other than whitespace (separators are spaces)
\* that occurs only inside such elements is not in it.
C8_ScriptStyleDropped ==
    pc = "extract_text" =>
        /\ ret = Ext(Prune(dom))
        /\ \A ch \in TextChars_of(dom) \ TextChars_of(Prune(dom)) :
               ~is_whitespace(ch) => ~Contains(ret, ch)

\* C8 witness: text inside an element nested in a script or style element, next to
\* text that is kept.
C8_Witness ==
    /\ pc = "extract_text"
    /\ \E i \in 1..Len(dom) :
          /\ IsElementNamed(dom[i], {"style"})
          /\ dom[i].children # <<>>
          /\ dom[i].children[1].data = "Element"
          /\ "x" \in TextChars_of(dom[i].children[1].children)
    /\ ret = <<"a">>

(***************************************************************************)
(* Claims about the fingerprint and the incremental guard.                 *)
(***************************************************************************)
SameArguments(c, d) ==
    c.topic_id = d.topic_id /\ c.model = d.model /\ c.prompt = d.prompt

\* C9: any two calls of prompt_hash with equal arguments, by the same copy or by
\* two different copies (lib.rs, llm.rs, main.rs), return the same digest.
C9_PromptHashDeterministic ==
    \A i, j \in 1..Len(calls) :
        SameArguments(calls[i], calls[j]) => calls[i].digest = calls[j].digest

\* C9 witness: two different copies were called with the same arguments, a
\* negative topic id and a multi-byte prompt, and the digests agree.
C9_Witness ==
    /\ Len(calls) = 2
    /\ calls[1].copy = "main::prompt_hash"
    /\ calls[2].copy = "lib::prompt_hash"
    /\ SameArguments(calls[1], calls[2])
    /\ calls[1].topic_id = -2
    /\ calls[1].prompt = <<"U+00E9", "\n", "p">>
    /\ calls[1].digest = calls[2].digest

PostsOf(topic_id) ==
    {id \in PostIds : posts[id] # NoRow /\ TheRow(posts[id]).topic_id = topic_id}

CreatedAt(id) == TheRow(posts[id]).created_at

HasSummaryTime(topic_id) ==
    /\ topic_summaries_llm[topic_id] # NoRow
    /\ TheRow(topic_summaries_llm[topic_id]).updated_at # NULL

UpdatedAt(topic_id) == Unwrap(TheRow(topic_summaries_llm[topic_id]).updated_at)

\* C10: the guard is false without posts; true with a post and no stored summary
\* timestamp; otherwise true exactly when some post (hence the latest) was created
\* strictly after the summary's updated_at.
C10_GuardTruthTable ==
    pc \in {"posts_changed_since_last_llm", "main_posts_changed_since_last_llm"} =>
        LET t == ret.topic_id
        IN  ret.changed =
                IF PostsOf(t) = {} THEN FALSE
                ELSE IF ~HasSummaryTime(t) THEN TRUE
                ELSE \E id \in PostsOf(t) : CreatedAt(id) > UpdatedAt(t)

\* C10 witness: the latest post and the summary have the same timestamp and the
\* guard answered false, with an older post of the topic also stored.
C10_Witness ==
    /\ pc = "posts_changed_since_last_llm"
    /\ ret.changed = FALSE
    /\ Cardinality(PostsOf(ret.topic_id)) = 2
    /\ HasSummaryTime(ret.topic_id)
    /\ \E id \in PostsOf(ret.topic_id) : CreatedAt(id) = UpdatedAt(ret.topic_id)
    /\ \E id \in PostsOf(ret.topic_id) : CreatedAt(id) < UpdatedAt(ret.topic_id)

(***************************************************************************)
(* Claims about the summarization clients.                                 *)
(***************************************************************************)
Returned(variant) == client.variant = variant /\ client.pc = "returned"

\* C11: a call of summarize_with_ollama (ollama.rs) never retries forever and,
\* when every one of its attempts failed transiently (transport error or 5xx),
\* never returns success: while it runs the elapsed time is within the maximum
\* elapsed time, every attempt either ends the call or is followed by a wait
\* that advances the clock, and the call that only met transient failures
\* returns an error, when next_backoff finds the maximum elapsed time
\* exhausted (the time elapsed plus the next wait exceeds it).
C11_TransientFailuresEndInError ==
    /\ [](Returned("ollama") /\ client.only_transient
            => /\ ~client.result.ok
               /\ client.gave_up # None
               /\ client.elapsed + Unwrap(client.gave_up) > client.max_elapsed)
    /\ [](client.variant = "ollama" /\ client.pc = "running"
            => client.elapsed <= client.max_elapsed)
    /\ [][client.variant = "ollama" /\ client.pc = "running"
            => client'.pc = "returned" \/ client'.elapsed > client.elapsed]_vars

\* C11 witness: the call returned an error after at least two requests that
\* all failed transiently, the second sent after a wait.
C11_Witness ==
    /\ Returned("ollama")
    /\ client.only_transient
    /\ client.requests >= 2
    /\ client.elapsed > 0
    /\ ~client.result.ok

\* C12: when an attempt of summarize_with_ollama (ollama.rs) is answered with a
\* 4xx status the call has returned an error: the request that met the 4xx is
\* the last one, and nothing changes after the return.
C12_ClientErrorIsPermanent ==
    /\ [](client.variant = "ollama" /\ client.last = "4xx"
            => client.pc = "returned" /\ ~client.result.ok /\ client.gave_up = None)
    /\ [][Returned("ollama") => client' = client]_vars

\* C12 witness: the first and only request was answered with a 4xx.
C12_Witness ==
    /\ Returned("ollama")
    /\ client.last = "4xx"
    /\ client.requests = 1
    /\ client.elapsed <= MaxAttemptTicks

\* C13: when a 2xx answer of summarize_with_ollama (ollama.rs) has a
\* body that does not decode, the call has returned an error after that
\* attempt and no further request follows.
C13_DecodeFailureIsPermanent ==
    client.variant = "ollama" /\ client.last = "2xx_undecodable"
        => client.pc = "returned" /\ ~client.result.ok

\* C14: every successful return of a summarization client carries the
\* tokenizer's count over the request messages (system and prompt) as input
\* count and the tokenizer's count over the raw answer text as output count.
C14_TokenCountsAreEstimates ==
    client.pc = "returned" /\ client.result.ok
        => /\ client.result.in_tok = bpe_len(SYSTEM) + bpe_len(client.prompt)
           /\ client.result.out_tok = bpe_len(client.result.raw)

(***************************************************************************)
(* Claims about the output sanitizer.                                      *)
(***************************************************************************)
\* A marker begins at i: "[post:", a digit, and a "]" somewhere after.
MarkerAt(str, i) ==
    LET d == i + Len(POST_PREFIX)
    IN  /\ StartsWith(str, i, POST_PREFIX)
        /\ d <= Len(str)
        /\ is_ascii_digit(str[d])
        /\ \E j \in (d + 1)..Len(str) : str[j] = "]"

\* It ends at the first "]" after its first digit (0 when none begins at i).
MarkerEndAt(str, i) ==
    IF MarkerAt(str, i)
    THEN CHOOSE j \in (i + Len(POST_PREFIX) + 1)..Len(str) :
             /\ str[j] = "]"
             /\ \A k \in (i + Len(POST_PREFIX) + 1)..(j - 1) : str[k] # "]"
    ELSE 0

ContainsMarker(str) == \E i \in 1..Len(str) : MarkerAt(str, i)

\* The marker occurrences of a text, leftmost first and not overlapping: where
\* each begins.
RECURSIVE MarkerStarts(_, _)
MarkerStarts(str, i) ==
    IF i > Len(str) THEN {}
    ELSE IF MarkerAt(str, i)
         THEN {i} \cup MarkerStarts(str, MarkerEndAt(str, i) + 1)
         ELSE MarkerStarts(str, i + 1)

\* A marker occurrence directly follows a non-empty beginning of "[post:".
MarkerAfterPrefixPart(str) ==
    \E i \in MarkerStarts(str, 1), k \in 1..Len(POST_PREFIX) :
        /\ i > k
        /\ SubSeq(str, i - k, i - 1) = SubSeq(POST_PREFIX, 1, k)

CoveredByMarker(str) == UNION {i..MarkerEndAt(str, i) : i \in MarkerStarts(str, 1)}

RECURSIVE WordsFrom(_, _, _)
WordsFrom(str, i, covered) ==
    IF i > Len(str) THEN <<>>
    ELSE (IF i \in covered \/ is_whitespace(str[i]) THEN <<>> ELSE <<str[i]>>)
             \o WordsFrom(str, i + 1, covered)

WordsOutsideMarkers(str) == WordsFrom(str, 1, CoveredByMarker(str))

WordsOf(str) == WordsFrom(str, 1, {})

\* Every line of the text is squeezed and right-trimmed: the only whitespace
\* is the single space and the newline that ends a line, no two spaces are
\* adjacent and no space stands at the end of a line.
LinesAreClean(str) ==
    /\ \A i \in 1..Len(str) : is_whitespace(str[i]) => str[i] \in {" ", "\n"}
    /\ \A i \in 1..(Len(str) - 1) : str[i] = " " => str[i + 1] \notin {" ", "\n"}
    /\ str # <<>> => str[Len(str)] # " "

SummarizeFailed == etl.pc = "summarizing" /\ etl'.outcome \in {"err", "timeout"}

\* C17: in the ETL loop topic_summaries_llm changes only in the step in which
\* the summarization call returned Ok, and then only in the row of the topic,
\* which gets the parsed Summary and the fingerprint of the prompt; when the
\* call returned an error or was cut off by the outer timeout the table (the
\* stored summary, prompt_hash and updated_at) is what it was.
C17_RowWrittenOnlyAfterParsedSummary ==
    [][/\ topic_summaries_llm' # topic_summaries_llm
           => /\ etl.pc = "summarizing"
              /\ etl'.outcome = "ok"
              /\ \A t \in TopicIds \ {etl.topic} :
                     topic_summaries_llm'[t] = topic_summaries_llm[t]
              /\ TheRow(topic_summaries_llm'[etl.topic]).summary # None
              /\ TheRow(topic_summaries_llm'[etl.topic]).prompt_hash
                     = Unwrap(etl.prompt_hash)
       /\ SummarizeFailed => topic_summaries_llm' = topic_summaries_llm]_vars

\* C17 witness: the call for a topic that has a stored summary failed, and a
\* row of another run is in the table.
C17_Witness ==
    /\ etl.outcome \in {"err", "timeout"}
    /\ topic_summaries_llm[etl.topic] # NoRow
    /\ TheRow(topic_summaries_llm[etl.topic]).updated_at # Some(etl.now)

\* C18: when the summarization call of a topic returns an error (permanent, or
\* retries exhausted) or is cut off by the outer timeout, the loop warns and
\* goes on with the next topic of the list, or ends the run normally after the
\* last one; the topics are visited in the order of the list and a run that
\* ends normally has visited every one of them.
C18_FailureDoesNotEndTheRun ==
    /\ [][SummarizeFailed
            => /\ etl'.pc = (IF Tail(etl.todo) = <<>> THEN "done" ELSE "loop")
               /\ etl'.todo = Tail(etl.todo)
               /\ etl.topic \in etl'.warned]_vars
    /\ [](etl.pc \in {"loop", "guard", "summarizing", "done"}
            => etl.visited \o etl.todo = etl.topics)
    /\ [](etl.pc = "done" => etl.todo = <<>>)

\* C18 witness: the call for the first topic of the list failed, the second
\* topic was summarized after it and the run ended normally.
C18_Witness ==
    /\ etl.pc = "done"
    /\ Len(etl.topics) = 2
    /\ etl.topics[1] \in etl.warned
    /\ etl.topic = etl.topics[2]
    /\ etl.outcome = "ok"
    /\ topic_summaries_llm[etl.topic] # NoRow

\* C20: the summarization call is never made for a topic whose stored
\* prompt_hash equals the fingerprint computed for it in this run.
C20_NoCallForStoredFingerprint ==
    etl.pc = "summarizing" => etl.stored_hash # etl.prompt_hash

(***************************************************************************)
(* Claims about load_plain_lines.                                          *)
(***************************************************************************)
StoredOf(topic_id) ==
    {id \in DOMAIN posts : posts[id] # NoRow /\ TheRow(posts[id]).topic_id = topic_id}

ExtractedText(id) == strip_tags_fast(TheRow(posts[id]).cooked)

\* '[post:<id> @ <RFC3339 timestamp>] <text>' of a stored post.
LineOfPost(id) == format_line(id, rfc3339(CreatedAt(id)), ExtractedText(id))

WithText(topic_id) == {id \in StoredOf(topic_id) : ExtractedText(id) # <<>>}

\* The lines, each followed by a newline, one after the other.
RECURSIVE JoinedLines(_)
JoinedLines(ls) ==
    IF ls = <<>> THEN <<>>
    ELSE IF Len(ls) = 1 THEN ls[1] \o <<"\n">>
    ELSE LET half == Len(ls) \div 2
         IN  JoinedLines(SubSeq(ls, 1, half)) \o JoinedLines(SubSeq(ls, half + 1, Len(ls)))

\* The stored post whose formatted line is the given line, 0 when there is
\* none (the id at the head of the line tells the posts apart).
PostOfLine(topic_id, post_lines, l) ==
    IF \E id \in 1..Len(post_lines) :
           id \in StoredOf(topic_id) /\ post_lines[id] = Some(l)
    THEN CHOOSE id \in 1..Len(post_lines) :
             id \in StoredOf(topic_id) /\ post_lines[id] = Some(l)
    ELSE 0

\* For every id of the table the formatted line of the post when it has text.
PostLines ==
    SelectSeq([id \in 1..Len(posts) |->
                  IF posts[id] # NoRow /\ ExtractedText(id) # <<>>
                  THEN Some(LineOfPost(id)) ELSE None],
              LAMBDA l : TRUE)

\* For every returned line the post it is the line of.
PostsOfLines(topic_id, ls) ==
    LET post_lines == PostLines
    IN  SelectSeq([k \in 1..Len(ls) |-> PostOfLine(topic_id, post_lines, ls[k])],
                  LAMBDA id : TRUE)

\* Every returned line is the formatted line of a stored post of the topic
\* with non-empty text, no post has two lines, and the lines come by
\* non-decreasing created_at.
LinesAreOrderedPostLines(of_lines) ==
    /\ \A k \in 1..Len(of_lines) : of_lines[k] # 0
    /\ \A j, k \in 1..Len(of_lines) :
           j < k => /\ of_lines[j] # of_lines[k]
                    /\ CreatedAt(of_lines[j]) <= CreatedAt(of_lines[k])

HasLine(id, of_lines) == \E k \in 1..Len(of_lines) : of_lines[k] = id

\* C19: load_plain_lines returns exactly one line per stored post of the topic
\* whose extracted text is non-empty, oldest first, each formatted as
\* '[post:<id> @ <RFC3339 timestamp>] <text>', and the chunk keeps that order.
C19_OneLinePerPostWithText ==
    pc = "load_plain_lines" =>
        LET of_lines == PostsOfLines(ret.topic_id, ret.lines)
        IN  /\ LinesAreOrderedPostLines(of_lines)
            /\ \A id \in WithText(ret.topic_id) : HasLine(id, of_lines)
            /\ IsPrefixOf(ret.chunk, JoinedLines(ret.lines))

\* C19 as amended: the lines are those of the posts with non-empty text among
\* the first MAX_POSTS_FOR_CHUNK posts of the topic by created_at.  Every line
\* is the formatted line of its own post, the lines come oldest first, a post
\* with a line has fewer than MAX_POSTS_FOR_CHUNK posts of the topic before
\* it, a post with text and without a line has at least MAX_POSTS_FOR_CHUNK
\* other posts of the topic not after it, and the chunk is a prefix of the
\* lines joined in that order.
C19_OneLinePerPostAmongFirstPosts ==
    pc = "load_plain_lines" =>
        LET of_topic == StoredOf(ret.topic_id)
            of_lines == PostsOfLines(ret.topic_id, ret.lines)
        IN  /\ LinesAreOrderedPostLines(of_lines)
            /\ \A id \in WithText(ret.topic_id) :
                   IF HasLine(id, of_lines)
                   THEN Cardinality({b \in of_topic : CreatedAt(b) < CreatedAt(id)})
                            < MAX_POSTS_FOR_CHUNK
                   ELSE Cardinality({b \in of_topic \ {id} : CreatedAt(b) <= CreatedAt(id)})
                            >= MAX_POSTS_FOR_CHUNK
            /\ IsPrefixOf(ret.chunk, JoinedLines(ret.lines))

\* C19 witness: more than MAX_POSTS_FOR_CHUNK posts, the oldest with the
\* highest id; one of the first MAX_POSTS_FOR_CHUNK has no text, the newest
\* has text and no line, and the chunk ends before the lines do.
C19_Witness ==
    /\ pc = "load_plain_lines"
    /\ Cardinality(StoredOf(ret.topic_id)) > MAX_POSTS_FOR_CHUNK
    /\ Len(ret.lines) = MAX_POSTS_FOR_CHUNK - 1
    /\ ret.lines[1] = LineOfPost(MAX_POSTS_FOR_CHUNK + 1)
    /\ 1 \in WithText(ret.topic_id)
    /\ ~HasLine(1, PostsOfLines(ret.topic_id, ret.lines))
    /\ Len(ret.chunk) = TEST_MAX_CHARS
    /\ Len(ret.chunk) < Len(JoinedLines(ret.lines))

\* C21: when an attempt of summarize_with_ollama (ollama.rs) is answered with
\* a decodable 2xx after attempts that all failed with a transport error or a
\* 5xx (none included), the call has returned Ok with the content of that
\* answer, and no request is sent after the return.
C21_SuccessAfterTransientFailures ==
    /\ [](client.variant = "ollama" /\ client.last = "2xx" /\ client.prior_only_transient
            => /\ client.pc = "returned"
               /\ client.result.ok
               /\ client.result.raw = client.body
               /\ client.gave_up = None)
    /\ [][Returned("ollama") /\ client.result.ok
            => client'.requests = client.requests /\ client'.result = client.result]_vars

\* C21 witness: two requests failed transiently, each followed by a wait, and
\* the third was answered with a 2xx whose content the call returned.
C21_Witness ==
    /\ Returned("ollama")
    /\ client.last = "2xx"
    /\ client.prior_only_transient
    /\ client.requests = 3
    /\ client.elapsed >= InitialInterval
    /\ client.result.ok
    /\ client.result.raw = <<"Headline">>

\* A post of the topic of the iteration that the fetch of this step stored and
\* that was not in the table before, while the topic has a persisted summary:
\* the post was stored after the posts of that summary were read.
StoredAfterSummary(id) ==
    /\ etl.pc = "loop"
    /\ etl'.pc = "guard"
    /\ topic_summaries_llm[etl'.topic] # NoRow
    /\ posts[id] = NoRow
    /\ posts'[id] # NoRow
    /\ TheRow(posts'[id]).topic_id = etl'.topic

\* C22: when the fetch of an iteration stores a post of the topic that was not
\* stored when the topic's persisted summary was made, the guard
\* posts_changed_since_last_llm asked next in that iteration answers true.
C22_NewPostIsReprocessed ==
    [][\A t \in TopicIds :
           t = etl'.topic /\ (\E id \in PostIds : StoredAfterSummary(id))
               => main_posts_changed_since_last_llm(t)']_vars

\* C23: two calls of prompt_hash (lib.rs) whose triples (topic_id, model,
\* prompt) differ in at least one component hash different byte strings, and
\* so return different digests (the digest of the model names the bytes).
C23_HashedBytesInjective ==
    \A i, j \in 1..Len(calls) :
        /\ calls[i].copy = "lib::prompt_hash"
        /\ calls[j].copy = "lib::prompt_hash"
        /\ ~SameArguments(calls[i], calls[j])
        => calls[i].digest # calls[j].digest

\* What the call did with the answer of its last attempt: "retry" when it went
\* on to wait for another attempt or wanted to and found the maximum elapsed
\* time exhausted, "stop" when it returned that answer.
DecisionTaken ==
    IF client.pc = "running" \/ client.gave_up # None THEN "retry" ELSE "stop"

\* C24: after every attempt of summarize_with_ollama of main.rs the call
\* retries exactly when summarize_with_ollama of ollama.rs retries on the
\* same answer (same outcome, same message content).
C24_MainDecidesAsLibrary ==
    client.variant = "main" /\ client.requests >= 1
        => (DecisionTaken = "retry" <=> ollama_op(client.last, client.body) = "transient")

\* C25: two calls of load_plain_lines for the same topic, one after the
\* other over the same stored posts, return the same lines, and make_chunk
\* gives the same chunk for both.
C25_SameLinesOnEveryCall ==
    [][(/\ pc = "load_plain_lines"
        /\ pc' = "load_plain_lines"
        /\ ret'.topic_id = ret.topic_id
        /\ posts' = posts)
          => ret'.lines = ret.lines /\ ret'.chunk = ret.chunk]_vars

====
